---- MODULE Spec2Model ----
(***************************************************************************)
(* A model of adifpush_enhanced.py: the ADIF record codec, the persisted   *)
(* duplicate cache, the upload client, push_file and the WSJT-X listener.  *)
(*                                                                         *)
(* Text is modelled as a sequence of tokens: a tag "<NAME:LEN>", a run of  *)
(* characters holding no "<", or another "<...>" mark such as "<EOR>".     *)
(* No two runs of characters are adjacent.  A run of characters is a       *)
(* sequence of one-character strings; the Python string '' is << >>.       *)
(***************************************************************************)
EXTENDS Integers, Sequences, FiniteSets, TLC

-----------------------------------------------------------------------------
(* Text *)

Tag(n, l) == [t |-> "tag", name |-> n, len |-> l, s |-> << >>]
Txt(s) == [t |-> "txt", name |-> "", len |-> 0, s |-> s]
Mark(n) == [t |-> "mark", name |-> n, len |-> 0, s |-> << >>]

EmptyStr == << >>

\* str.lower() on the tag names that occur
lower(n) ==
    CASE n = "QSO_DATE" -> "qso_date"
      [] n = "TIME_ON" -> "time_on"
      [] n = "CALL" -> "call"
      [] n = "FREQ" -> "freq"
      [] n = "MODE" -> "mode"
      [] n = "TX_PWR" -> "tx_pwr"
      [] OTHER -> n

IsSpace(c) == c \in {" ", "\n"}
IsDigit(c) == c \in {"0", "1", "2", "3", "4", "5", "6", "7", "8", "9"}

RECURSIVE lstripS(_)
lstripS(s) == IF s # << >> /\ IsSpace(Head(s)) THEN lstripS(Tail(s)) ELSE s

RECURSIVE rstripS(_)
rstripS(s) ==
    IF s # << >> /\ IsSpace(s[Len(s)]) THEN rstripS(SubSeq(s, 1, Len(s) - 1)) ELSE s

RECURSIVE lstrip(_)
lstrip(text) ==
    IF text = << >> \/ Head(text).t # "txt" THEN text
    ELSE LET r == lstripS(Head(text).s)
         IN  IF r = << >> THEN lstrip(Tail(text)) ELSE <<Txt(r)>> \o Tail(text)

RECURSIVE rstrip(_)
rstrip(text) ==
    IF text = << >> \/ text[Len(text)].t # "txt" THEN text
    ELSE LET r == rstripS(text[Len(text)].s)
             front == SubSeq(text, 1, Len(text) - 1)
         IN  IF r = << >> THEN rstrip(front) ELSE front \o <<Txt(r)>>

\* str.strip()
strip(text) == rstrip(lstrip(text))

\* str.startswith('#')
startswith_hash(text) ==
    text # << >> /\ Head(text).t = "txt" /\ Head(Head(text).s) = "#"

-----------------------------------------------------------------------------
(* AdifParser.parse_line, AdifParser.calculate_hash *)

None == << >>

\* re.findall(r'<(\w+):(\d+)>([^<]*)', line): one (key, length, value) per tag,
\* the value being every character up to the next "<" or the end of the line
findall(line) ==
    LET tagAt == {i \in 1..Len(line) : line[i].t = "tag"}
        valueAt(i) == IF i < Len(line) /\ line[i + 1].t = "txt" THEN line[i + 1].s
                      ELSE EmptyStr
        RECURSIVE from(_)
        from(i) == IF i > Len(line) THEN << >>
                   ELSE IF i \in tagAt
                        THEN <<<<line[i].name, line[i].len, valueAt(i)>>>> \o from(i + 1)
                        ELSE from(i + 1)
    IN  from(1)

\* for key, length, value in matches: record[key.lower()] = value
RECURSIVE fill(_, _)
fill(record, matches) ==
    IF matches = << >> THEN record
    ELSE LET key == lower(Head(matches)[1])
             value == Head(matches)[3]
         IN  fill([k \in DOMAIN record \cup {key} |->
                      IF k = key THEN value ELSE record[k]], Tail(matches))

parse_line(line) ==
    LET matches == findall(line)
        record == fill(<< >>, matches)
    IN  IF matches = << >> THEN None
        ELSE IF "call" \notin DOMAIN record \/ "qso_date" \notin DOMAIN record
                \/ "time_on" \notin DOMAIN record
             THEN None
             ELSE record

\* record.get(key, '')
get(record, key) == IF key \in DOMAIN record THEN record[key] ELSE EmptyStr

\* hashlib.sha256(...).hexdigest(): a collision-free digest, never the empty string
sha256(s) == <<"sha256:">> \o s

normalized_of(record) ==
    get(record, "qso_date") \o <<"_">> \o get(record, "time_on") \o <<"_">>
        \o get(record, "call") \o <<"_">> \o get(record, "freq") \o <<"_">>
        \o get(record, "mode")

calculate_hash(adif_line) ==
    LET record == parse_line(adif_line)
    IN  IF record = None THEN EmptyStr ELSE sha256(normalized_of(record))

-----------------------------------------------------------------------------
(* Config: the persisted duplicate cache (CACHE_FILE) *)

\* Code points order the characters; "sha256:" stands for the digest's own
\* characters and only ever begins a digest
Alphabet ==
    <<"\n", " ", "#", "0", "1", "2", "3", "4", "5", "6", "7", "8", "9",
      "A", "B", "W", "_", "sha256:">>

ord(c) == CHOOSE i \in 1..Len(Alphabet) : Alphabet[i] = c

\* a < b on Python strings
RECURSIVE str_lt(_, _)
str_lt(a, b) ==
    IF b = << >> THEN FALSE
    ELSE IF a = << >> THEN TRUE
    ELSE IF Head(a) = Head(b) THEN str_lt(Tail(a), Tail(b))
    ELSE ord(Head(a)) < ord(Head(b))

RECURSIVE sorted(_)
sorted(S) ==
    IF S = {} THEN << >>
    ELSE LET m == CHOOSE x \in S : \A y \in S \ {x} : str_lt(x, y)
         IN  <<m>> \o sorted(S \ {m})

\* The cache file: whether it exists and, if so, its text as the list of the
\* pieces between its "\n" characters (the empty text is the list <<''>>)
NoFile == [exists |-> FALSE, text |-> << >>]
FileOf(pieces) == [exists |-> TRUE, text |-> pieces]

\* text.strip() on a text whose pieces hold no whitespace: the leading and the
\* trailing empty pieces go
RECURSIVE lstrip_text(_)
lstrip_text(pieces) ==
    IF pieces # << >> /\ Head(pieces) = EmptyStr THEN lstrip_text(Tail(pieces))
    ELSE pieces

RECURSIVE rstrip_text(_)
rstrip_text(pieces) ==
    IF pieces # << >> /\ pieces[Len(pieces)] = EmptyStr
    THEN rstrip_text(SubSeq(pieces, 1, Len(pieces) - 1))
    ELSE pieces

\* text.strip().split('\n')
strip_split(pieces) ==
    LET stripped == rstrip_text(lstrip_text(pieces))
    IN  IF stripped = << >> THEN <<EmptyStr>> ELSE stripped

\* '\n'.join(items)
join(items) == IF items = << >> THEN <<EmptyStr>> ELSE items

\* load_uploaded_qsos taking the first line of the file for a heading
load_skips_first_line(file) ==
    IF ~file.exists THEN {}
    ELSE LET pieces == Tail(strip_split(file.text))
         IN  {pieces[i] : i \in 1..Len(pieces)}

load_uploaded_qsos(file) ==
    IF ~file.exists THEN {}
    ELSE LET pieces == strip_split(file.text)
         IN  {pieces[i] : i \in 1..Len(pieces)}

\* save_uploaded_qso writing the new key alone
save_overwrites(file, qso_hash) == FileOf(join(sorted({qso_hash})))

\* save_uploaded_qso opening the file to append
save_appends(file, qso_hash) ==
    IF file.exists THEN FileOf(file.text \o <<qso_hash>>) ELSE FileOf(<<qso_hash>>)

save_uploaded_qso(file, qso_hash) ==
    LET uploaded == load_uploaded_qsos(file) \cup {qso_hash}
    IN  FileOf(join(sorted(uploaded)))

\* Config.CACHE_FILE.unlink(missing_ok=True)
clear_cache(file) == NoFile

-----------------------------------------------------------------------------
(* CloudlogPusher.push_record *)

Status(code) == [kind |-> "status", code |-> code]
Transport == [kind |-> "exception", code |-> 0]
NoResp == [kind |-> "none", code |-> 0]

\* What the server or the network answers to one POST
Responses == {Status(200), Status(201), Status(204), Status(500), Transport}

NoResult == [ok |-> FALSE, err |-> "", posts |-> 0]

\* push_record taking every status below 300 for a success
push_record_any_2xx(adif_line, resp) ==
    IF parse_line(adif_line) = None
    THEN [ok |-> FALSE, err |-> "Invalid ADIF format", posts |-> 0]
    ELSE IF resp.kind = "exception"
         THEN [ok |-> FALSE, err |-> "exception", posts |-> 1]
         ELSE IF resp.code < 300
              THEN [ok |-> TRUE, err |-> "", posts |-> 1]
              ELSE [ok |-> FALSE, err |-> "status", posts |-> 1]

\* The result tuple, and the number of session.post calls made
push_record(adif_line, resp) ==
    IF parse_line(adif_line) = None
    THEN [ok |-> FALSE, err |-> "Invalid ADIF format", posts |-> 0]
    ELSE IF resp.kind = "exception"
         THEN [ok |-> FALSE, err |-> "exception", posts |-> 1]
         ELSE IF resp.code \in {200, 201}
              THEN [ok |-> TRUE, err |-> "", posts |-> 1]
              ELSE [ok |-> FALSE, err |-> "status", posts |-> 1]

-----------------------------------------------------------------------------
(* AdifParser.read_file *)

max_retries == 5

\* Time goes in steps of 0.5 s from the first open attempt: an open takes no
\* time and each time.sleep(0.5) takes one step, so the clock is the number of
\* sleeps so far.  The file is locked for the first nlocked steps and an open
\* fails while it is locked.  Gives whether the lines were returned (else
\* IOError is raised), the number of open attempts, the number of sleeps and
\* what was done, in order.
RECURSIVE read_file_from(_, _, _)
read_file_from(attempt, nlocked, sleeps) ==
    IF attempt >= max_retries
    THEN [ok |-> FALSE, attempts |-> attempt, sleeps |-> sleeps, trace |-> << >>]
    ELSE IF sleeps >= nlocked
         THEN [ok |-> TRUE, attempts |-> attempt + 1, sleeps |-> sleeps,
               trace |-> <<"open_ok">>]
         ELSE IF attempt < max_retries - 1
              THEN LET rest == read_file_from(attempt + 1, nlocked, sleeps + 1)
                   IN  [rest EXCEPT !.trace = <<"open_fail", "sleep">> \o @]
              ELSE [ok |-> FALSE, attempts |-> attempt + 1, sleeps |-> sleeps,
                    trace |-> <<"open_fail", "raise">>]

\* read_file sleeping after every failed attempt, the last one too
RECURSIVE read_file_sleeps_after_last_from(_, _, _)
read_file_sleeps_after_last_from(attempt, nlocked, sleeps) ==
    IF attempt >= max_retries
    THEN [ok |-> FALSE, attempts |-> attempt, sleeps |-> sleeps, trace |-> <<"raise">>]
    ELSE IF sleeps >= nlocked
         THEN [ok |-> TRUE, attempts |-> attempt + 1, sleeps |-> sleeps,
               trace |-> <<"open_ok">>]
         ELSE LET rest == read_file_sleeps_after_last_from(attempt + 1, nlocked,
                                                           sleeps + 1)
              IN  [rest EXCEPT !.trace = <<"open_fail", "sleep">> \o @]

read_file_sleeps_after_last(nlocked) == read_file_sleeps_after_last_from(0, nlocked, 0)

\* read_file with one more attempt
RECURSIVE read_file_six_attempts_from(_, _, _)
read_file_six_attempts_from(attempt, nlocked, sleeps) ==
    IF sleeps >= nlocked
    THEN [ok |-> TRUE, attempts |-> attempt + 1, sleeps |-> sleeps,
          trace |-> <<"open_ok">>]
    ELSE IF attempt < max_retries
         THEN LET rest == read_file_six_attempts_from(attempt + 1, nlocked, sleeps + 1)
              IN  [rest EXCEPT !.trace = <<"open_fail", "sleep">> \o @]
         ELSE [ok |-> FALSE, attempts |-> attempt + 1, sleeps |-> sleeps,
               trace |-> <<"open_fail", "raise">>]

read_file_six_attempts(nlocked) == read_file_six_attempts_from(0, nlocked, 0)

read_file(nlocked) == read_file_from(0, nlocked, 0)

-----------------------------------------------------------------------------
(* WsjtxListener._parse_message *)

\* data.decode('utf-8', errors='ignore'): the bytes that are no UTF-8 ("BAD") go
RECURSIVE decodeS(_)
decodeS(s) ==
    IF s = << >> THEN << >>
    ELSE IF Head(s) = "BAD" THEN decodeS(Tail(s))
    ELSE <<Head(s)>> \o decodeS(Tail(s))

RECURSIVE decode(_)
decode(data) ==
    IF data = << >> THEN << >>
    ELSE IF Head(data).t # "txt" THEN <<Head(data)>> \o decode(Tail(data))
    ELSE LET r == decodeS(Head(data).s)
         IN  IF r = << >> THEN decode(Tail(data))
             ELSE <<Txt(r)>> \o decode(Tail(data))

\* '<NAME:' in text_data
contains_tag_open(text, n) ==
    \E i \in 1..Len(text) : text[i].t = "tag" /\ text[i].name = n

has_newline(s) == \E i \in 1..Len(s) : s[i] = "\n"

\* re.search(r'<QSO_DATE:\d+>\d+.*?<EOR>', text_data): the leftmost QSO_DATE
\* tag whose value begins with a digit, up to the first <EOR> after it, with
\* no newline in between (None when there is no such place)
search_record(text) ==
    LET eors(i) == {j \in (i + 1)..Len(text) : text[j] = Mark("EOR")}
        first_eor(i) == CHOOSE j \in eors(i) : \A m \in eors(i) : j <= m
        match_at(i) ==
            /\ text[i].t = "tag" /\ text[i].name = "QSO_DATE"
            /\ i < Len(text)
            /\ text[i + 1].t = "txt" /\ IsDigit(Head(text[i + 1].s))
            /\ eors(i) # {}
            /\ \A m \in i..first_eor(i) : ~has_newline(text[m].s)
        starts == {i \in 1..Len(text) : match_at(i)}
        start == CHOOSE i \in starts : \A m \in starts : i <= m
    IN  IF starts = {} THEN None ELSE SubSeq(text, start, first_eor(start))

\* What _parse_message does with one datagram, given the working set and the
\* answer a POST would get: the push_record result, whether push_record was
\* called, the text handed to it and the key to save ('' for none)

\* _parse_message handing the whole datagram text to the parser and to push_record
parse_message_whole_text(data, resp, working) ==
    LET text_data == decode(data)
        ignored == [called |-> FALSE, result |-> NoResult, save |-> EmptyStr,
                    adif_line |-> None]
        qso_hash == calculate_hash(text_data)
        result == push_record(text_data, resp)
    IN  IF ~contains_tag_open(text_data, "QSO_DATE")
           \/ ~contains_tag_open(text_data, "CALL")
        THEN ignored
        ELSE IF qso_hash \in working THEN ignored
        ELSE IF parse_line(text_data) = None THEN ignored
        ELSE [called |-> TRUE, result |-> result,
              save |-> IF result.ok /\ qso_hash # EmptyStr THEN qso_hash
                       ELSE EmptyStr,
              adif_line |-> text_data]

\* _parse_message marking the record as delivered whatever push_record returns
parse_message_marks_on_err(data, resp, working) ==
    LET text_data == decode(data)
        ignored == [called |-> FALSE, result |-> NoResult, save |-> EmptyStr,
                    adif_line |-> None]
    IN  IF ~contains_tag_open(text_data, "QSO_DATE")
           \/ ~contains_tag_open(text_data, "CALL")
        THEN ignored
        ELSE LET adif_line == search_record(text_data)
                 qso_hash == calculate_hash(adif_line)
                 result == push_record(adif_line, resp)
             IN  IF adif_line = None THEN ignored
                 ELSE IF qso_hash \in working THEN ignored
                 ELSE IF parse_line(adif_line) = None THEN ignored
                 ELSE [called |-> TRUE, result |-> result, save |-> qso_hash,
                       adif_line |-> adif_line]

parse_message(data, resp, working) ==
    LET text_data == decode(data)
        ignored == [called |-> FALSE, result |-> NoResult, save |-> EmptyStr,
                    adif_line |-> None]
    IN  IF ~contains_tag_open(text_data, "QSO_DATE")
           \/ ~contains_tag_open(text_data, "CALL")
        THEN ignored
        ELSE LET adif_line == search_record(text_data)
                 qso_hash == calculate_hash(adif_line)
                 result == push_record(adif_line, resp)
             IN  IF adif_line = None THEN ignored
                 ELSE IF qso_hash \in working THEN ignored
                 ELSE IF parse_line(adif_line) = None THEN ignored
                 ELSE [called |-> TRUE, result |-> result,
                       save |-> IF result.ok /\ qso_hash # EmptyStr THEN qso_hash
                                ELSE EmptyStr,
                       adif_line |-> adif_line]

\* Where in _parse_message a KeyboardInterrupt can come: "scan", before
\* push_record is called; "result", once push_record has returned; and, in the
\* branch of a successful upload, "load", inside the try of the
\* load_uploaded_qsos call that save_uploaded_qso makes; "write", in write_text
\* once the file is open for writing and still empty; "add", after
\* save_uploaded_qso and before the working set is added to
IrqPoints == {"scan", "result", "load", "write", "add"}

\* _parse_message with a KeyboardInterrupt at that point: whether the handler
\* gets there, whether the interrupt leaves _parse_message (it is no Exception,
\* so only the bare except of load_uploaded_qsos takes it), and the cache file
\* and the working set it leaves
parse_message_interrupted(data, resp, working, file, point) ==
    LET m == parse_message(data, resp, working)
        saving == m.save # EmptyStr
        before == [called |-> FALSE, result |-> NoResult, save |-> EmptyStr,
                   adif_line |-> None]
    IN  CASE point = "scan" ->
               [reached |-> TRUE, raised |-> TRUE, m |-> before,
                file |-> file, working |-> working]
          [] point = "result" ->
               [reached |-> m.called, raised |-> TRUE, m |-> m,
                file |-> file, working |-> working]
          [] point = "load" ->
               [reached |-> saving, raised |-> FALSE, m |-> m,
                file |-> FileOf(join(sorted({} \cup {m.save}))),
                working |-> working \cup {m.save}]
          [] point = "write" ->
               [reached |-> saving, raised |-> TRUE, m |-> m,
                file |-> FileOf(<<EmptyStr>>), working |-> working]
          [] point = "add" ->
               [reached |-> saving, raised |-> TRUE, m |-> m,
                file |-> save_uploaded_qso(file, m.save), working |-> working]

-----------------------------------------------------------------------------
(* CloudlogPusher.push_file: one turn of the loop over the lines *)

\* What the loop body does with one line, given uploaded_hashes and the answer
\* a POST would get: which branch it takes, the push_record result, the text
\* handed to push_record, the key to save ('' for none) and what it adds to
\* the three counters
push_file_line_variant(line, uploaded, resp, save_on_err, count_invalid) ==
    LET trimmed == strip(line)
        qso_hash == calculate_hash(trimmed)
        result == push_record(trimmed, resp)
        nothing == [op |-> "continue", called |-> FALSE, result |-> NoResult,
                    adif_line |-> None, qso_hash |-> EmptyStr, save |-> EmptyStr,
                    success |-> 0, failed |-> 0, skipped |-> 0]
    IN  IF trimmed = << >> \/ startswith_hash(trimmed) THEN nothing
        ELSE IF qso_hash # EmptyStr /\ qso_hash \in uploaded
             THEN [nothing EXCEPT !.op = "skip", !.qso_hash = qso_hash, !.skipped = 1]
             ELSE [op |-> "push", called |-> TRUE, result |-> result,
                   adif_line |-> trimmed, qso_hash |-> qso_hash,
                   save |-> IF (result.ok \/ save_on_err) /\ qso_hash # EmptyStr
                            THEN qso_hash ELSE EmptyStr,
                   success |-> IF result.ok THEN 1 ELSE 0,
                   failed |-> IF result.ok \/ (result.posts = 0 /\ ~count_invalid)
                              THEN 0 ELSE 1,
                   skipped |-> 0]

\* push_file saving the key whatever push_record returns
push_file_line_saves_on_err(line, uploaded, resp) ==
    push_file_line_variant(line, uploaded, resp, TRUE, TRUE)

\* push_file counting no line that push_record turns down as invalid
push_file_line_drops_invalid(line, uploaded, resp) ==
    push_file_line_variant(line, uploaded, resp, FALSE, FALSE)

push_file_line(line, uploaded, resp) ==
    LET trimmed == strip(line)
        qso_hash == calculate_hash(trimmed)
        result == push_record(trimmed, resp)
        nothing == [op |-> "continue", called |-> FALSE, result |-> NoResult,
                    adif_line |-> None, qso_hash |-> EmptyStr, save |-> EmptyStr,
                    success |-> 0, failed |-> 0, skipped |-> 0]
    IN  IF trimmed = << >> \/ startswith_hash(trimmed) THEN nothing
        ELSE IF qso_hash # EmptyStr /\ qso_hash \in uploaded
             THEN [nothing EXCEPT !.op = "skip", !.qso_hash = qso_hash, !.skipped = 1]
             ELSE [op |-> "push", called |-> TRUE, result |-> result,
                   adif_line |-> trimmed, qso_hash |-> qso_hash,
                   save |-> IF result.ok /\ qso_hash # EmptyStr THEN qso_hash
                            ELSE EmptyStr,
                   success |-> IF result.ok THEN 1 ELSE 0,
                   failed |-> IF result.ok THEN 0 ELSE 1,
                   skipped |-> 0]

-----------------------------------------------------------------------------
(* Inputs *)

MaxLines == 2
MaxRuns == 2
MaxDgrams == 2
MaxLocked == 6

RecA ==
    <<Tag("QSO_DATE", 8), Txt(<<"1">>), Tag("TIME_ON", 6), Txt(<<"2">>),
      Tag("CALL", 5), Txt(<<"A">>), Mark("EOR")>>

\* the contact of RecA, written with the tags in another order, other declared
\* lengths and leading whitespace
RecA2 ==
    <<Txt(<<" ">>), Tag("CALL", 1), Txt(<<"A">>), Tag("QSO_DATE", 1), Txt(<<"1">>),
      Tag("TIME_ON", 1), Txt(<<"2">>), Mark("EOR")>>

RecB ==
    <<Tag("QSO_DATE", 8), Txt(<<"1">>), Tag("TIME_ON", 6), Txt(<<"2">>),
      Tag("CALL", 5), Txt(<<"B">>), Mark("EOR")>>

\* the contact of RecA with its frequency, written before the date
RecF ==
    <<Tag("FREQ", 1), Txt(<<"7">>), Tag("QSO_DATE", 8), Txt(<<"1">>),
      Tag("TIME_ON", 6), Txt(<<"2">>), Tag("CALL", 5), Txt(<<"A">>), Mark("EOR")>>

NoCall ==
    <<Tag("QSO_DATE", 8), Txt(<<"1">>), Tag("TIME_ON", 6), Txt(<<"2">>), Mark("EOR")>>

NoTags == <<Txt(<<"A", " ", "B">>)>>

Blank == <<Txt(<<" ", "\n">>)>>

\* a comment line that quotes a record
Comment == <<Txt(<<"#", " ">>)>> \o RecA

FileLines == {RecA, RecA2, RecB, RecF, NoCall, NoTags, Blank, Comment}

RECURSIVE SeqsUpTo(_, _)
SeqsUpTo(S, n) ==
    IF n = 0 THEN {<< >>}
    ELSE LET shorter == SeqsUpTo(S, n - 1)
         IN  shorter \cup {Append(f, x) : f \in {g \in shorter : Len(g) = n - 1}, x \in S}

Files == SeqsUpTo(FileLines, MaxLines)

Header == Txt(<<"BAD", "W">>)

Datagrams ==
    { <<Header>> \o RecA \o <<Txt(<<"BAD">>)>>,
      <<Header>> \o Tail(RecA2),
      <<Header>> \o RecF,
      <<Header>>,
      <<Header>> \o NoCall,
      <<Header>> \o SubSeq(RecA, 1, Len(RecA) - 1),
      <<Header, Tag("QSO_DATE", 8), Txt(<<"1", "\n">>), Tag("TIME_ON", 6), Txt(<<"2">>),
        Tag("CALL", 5), Txt(<<"A">>), Mark("EOR")>> }

\* The Duplicate Keys of the records that occur
Keys ==
    ({calculate_hash(strip(l)) : l \in FileLines}
        \cup {calculate_hash(search_record(decode(d))) : d \in Datagrams}) \ {EmptyStr}

-----------------------------------------------------------------------------
(* State *)

VARIABLES
    cache_file,          \* Config.CACHE_FILE
    log_file,            \* the ADIF file push_file is given: whether it has been read
                         \*   yet and, once read, its lines
    pc,                  \* "menu", "push_file", "receiving", "exited", "crashed"
    lines,               \* push_file: lines
    idx,                 \* push_file: the number of lines the loop has taken
    uploaded_hashes,     \* push_file: uploaded_hashes
    success,             \* push_file: success
    failed,              \* push_file: failed
    skipped,             \* push_file: skipped
    socket,              \* WsjtxListener.socket: "none", "open", "closed"
    last_uploaded_qsos,  \* WsjtxListener.last_uploaded_qsos
    runs,                \* push_file calls and listener runs so far
    dgrams,              \* datagrams received in this listener run
    heard,               \* history: per key, the answer to its last POST in this
                         \*   listener run ("none", "err", "ok")
    ev,                  \* history: what the last step did
    okPosts,             \* history: per key, the POSTs answered Ok since the cache was empty
    errKeys,             \* history: the keys of the POSTs answered Err since then
    okThisRun,           \* history: the keys uploaded successfully in this push_file call
    nposts,              \* history: the POSTs of this push_file call
    allOk,               \* history: no upload of this push_file call has failed
    rerun,               \* history: this call repeats a call whose uploads all succeeded
    prevAllOk,           \* history: the last completed call's uploads all succeeded
                         \*   and no cache clear came after it
    hash_in,             \* calculate_hash on its own: the two records and their texts
    hash_out,            \* calculate_hash on its own: the two keys, once computed
    race                 \* save_uploaded_qso in two processes: the cache file they
                         \*   share and where each process is in its call

\* the variables of the specifications of single operations
unit_vars == <<hash_in, hash_out, race>>

vars ==
    <<cache_file, log_file, pc, lines, idx, uploaded_hashes, success, failed, skipped,
      socket, last_uploaded_qsos, runs, dgrams, heard, ev, okPosts, errKeys, okThisRun,
      nposts, allOk, rerun, prevAllOk, hash_in, hash_out, race>>

push_locals == <<lines, idx, uploaded_hashes, success, failed, skipped>>
push_history == <<okThisRun, nposts, allOk, rerun>>
listener_state == <<socket, last_uploaded_qsos, dgrams, heard>>

Unread == [read |-> FALSE, lines |-> << >>]
ReadAs(f) == [read |-> TRUE, lines |-> f]

NoReturn == [success |-> 0, failed |-> 0, skipped |-> 0]
NoCallInfo == [rerun |-> FALSE, nposts |-> 0]
NoRead == [nlocked |-> 0, ok |-> FALSE, attempts |-> 0, sleeps |-> 0, trace |-> << >>]
ReadOf(nlocked) ==
    LET r == read_file(nlocked)
    IN  [nlocked |-> nlocked, ok |-> r.ok, attempts |-> r.attempts, sleeps |-> r.sleeps,
         trace |-> r.trace]

\* input: the line or datagram handled; adif_line: the text handed to push_record;
\* irq: where the operator's interrupt came in this step ("" for nowhere);
\* read: what read_file did in this step
Event(op, input, o, resp) ==
    [op |-> op, input |-> input, called |-> o.called, adif_line |-> o.adif_line,
     posts |-> o.result.posts, ok |-> o.result.ok, err |-> o.result.err,
     resp |-> IF o.result.posts > 0 THEN resp ELSE NoResp,
     ret |-> NoReturn, call |-> NoCallInfo, irq |-> "", read |-> NoRead]

Quiet(op) ==
    [op |-> op, input |-> << >>, called |-> FALSE, adif_line |-> None,
     posts |-> 0, ok |-> FALSE, err |-> "", resp |-> NoResp,
     ret |-> NoReturn, call |-> NoCallInfo, irq |-> "", read |-> NoRead]

\* the history of the POST answers
Answered(key, result) ==
    /\ okPosts' = IF result.posts > 0 /\ result.ok
                  THEN [okPosts EXCEPT ![key] = @ + 1] ELSE okPosts
    /\ errKeys' = IF result.posts > 0 /\ ~result.ok
                  THEN errKeys \cup {key} ELSE errKeys

NoHash == [done |-> FALSE, a |-> EmptyStr, b |-> EmptyStr]

NothingHeard == [k \in Keys |-> "none"]

\* the two processes that save to the cache
Procs == {"push_file", "listener"}

NoRace ==
    [file |-> NoFile, before |-> {}, last |-> "",
     proc |-> [p \in Procs |-> [pc |-> "idle", key |-> EmptyStr, uploaded |-> {}]]]

\* the state at the menu, but for the cache file
InitButCache ==
    /\ log_file = Unread
    /\ pc = "menu"
    /\ lines = << >>
    /\ idx = 0
    /\ uploaded_hashes = {}
    /\ success = 0
    /\ failed = 0
    /\ skipped = 0
    /\ socket = "none"
    /\ last_uploaded_qsos = {}
    /\ runs = 0
    /\ dgrams = 0
    /\ heard = NothingHeard
    /\ ev = Quiet("init")
    /\ okPosts = [k \in Keys |-> 0]
    /\ errKeys = {}
    /\ okThisRun = {}
    /\ nposts = 0
    /\ allOk = TRUE
    /\ rerun = FALSE
    /\ prevAllOk = FALSE

InitPipeline ==
    /\ cache_file = NoFile
    /\ InitButCache

Init ==
    /\ InitPipeline
    /\ hash_in = << >>
    /\ hash_out = NoHash
    /\ race = NoRace

-----------------------------------------------------------------------------
(* CloudlogPusher.push_file *)

\* main, choices 3 and 4, up to the loop of push_file; with the file locked for
\* too long, push_file prints "Cannot read file" and returns its zero counts
\* (ev.ret) at once
PushFileStart ==
    /\ pc = "menu"
    /\ runs < MaxRuns
    /\ runs' = runs + 1
    /\ \E nlocked \in 0..MaxLocked, f \in IF log_file.read THEN {log_file.lines} ELSE Files :
          IF read_file(nlocked).ok
          THEN /\ pc' = "push_file"
               /\ lines' = f
               /\ log_file' = ReadAs(f)
               /\ uploaded_hashes' = load_uploaded_qsos(cache_file)
               /\ idx' = 0
               /\ success' = 0
               /\ failed' = 0
               /\ skipped' = 0
               /\ okThisRun' = {}
               /\ nposts' = 0
               /\ allOk' = TRUE
               /\ rerun' = prevAllOk
               /\ ev' = [Quiet("push_file") EXCEPT !.read = ReadOf(nlocked)]
          ELSE /\ ev' = [Quiet("cannot_read") EXCEPT !.read = ReadOf(nlocked)]
               /\ UNCHANGED <<pc, log_file, push_locals, push_history>>
    /\ UNCHANGED <<cache_file, listener_state, okPosts, errKeys, prevAllOk, unit_vars>>

\* One turn of the loop over the lines
PushFileLine ==
    /\ pc = "push_file"
    /\ idx < Len(lines)
    /\ idx' = idx + 1
    /\ LET line == lines[idx + 1]
       IN  \E resp \in IF push_file_line(line, uploaded_hashes, NoResp).result.posts > 0
                       THEN Responses ELSE {NoResp} :
             LET o == push_file_line(line, uploaded_hashes, resp)
             IN  /\ ev' = Event(o.op, line, o, resp)
                 /\ success' = success + o.success
                 /\ failed' = failed + o.failed
                 /\ skipped' = skipped + o.skipped
                 /\ cache_file' = IF o.save # EmptyStr
                                  THEN save_uploaded_qso(cache_file, o.save)
                                  ELSE cache_file
                 /\ IF o.called /\ o.qso_hash # EmptyStr
                    THEN Answered(o.qso_hash, o.result)
                    ELSE UNCHANGED <<okPosts, errKeys>>
                 /\ okThisRun' = IF o.result.ok THEN okThisRun \cup {o.qso_hash}
                                 ELSE okThisRun
                 /\ nposts' = nposts + o.result.posts
                 /\ allOk' = (allOk /\ (o.result.posts = 0 \/ o.result.ok))
    /\ UNCHANGED <<log_file, pc, lines, uploaded_hashes, listener_state, runs, rerun,
                   prevAllOk, unit_vars>>

\* The summary and the return to the menu; the call's variables are gone
PushFileReturn ==
    /\ pc = "push_file"
    /\ idx = Len(lines)
    /\ pc' = "menu"
    /\ ev' = [Quiet("return") EXCEPT
                 !.ret = [success |-> success, failed |-> failed, skipped |-> skipped],
                 !.call = [rerun |-> rerun, nposts |-> nposts]]
    /\ prevAllOk' = allOk
    /\ lines' = << >>
    /\ idx' = 0
    /\ uploaded_hashes' = {}
    /\ success' = 0
    /\ failed' = 0
    /\ skipped' = 0
    /\ okThisRun' = {}
    /\ nposts' = 0
    /\ allOk' = TRUE
    /\ rerun' = FALSE
    /\ UNCHANGED <<cache_file, log_file, listener_state, runs, okPosts, errKeys,
                   unit_vars>>

-----------------------------------------------------------------------------
(* WsjtxListener *)

\* main, choice 1: WsjtxListener(pusher), then start() up to the receive loop
ListenStart ==
    /\ pc = "menu"
    /\ runs < MaxRuns
    /\ runs' = runs + 1
    /\ last_uploaded_qsos' = load_uploaded_qsos(cache_file)
    /\ socket' = "open"
    /\ dgrams' = 0
    /\ heard' = NothingHeard
    /\ pc' = "receiving"
    /\ ev' = Quiet("listen")
    /\ UNCHANGED <<cache_file, log_file, push_locals, push_history, okPosts, errKeys,
                   prevAllOk, unit_vars>>

\* bind() or the multicast join raises: start() has no handler around them, and
\* neither has main
ListenStartFails ==
    /\ pc = "menu"
    /\ runs < MaxRuns
    /\ runs' = runs + 1
    /\ last_uploaded_qsos' = load_uploaded_qsos(cache_file)
    /\ socket' = "open"
    /\ dgrams' = 0
    /\ heard' = NothingHeard
    /\ pc' = "crashed"
    /\ ev' = Quiet("bind_failed")
    /\ UNCHANGED <<cache_file, log_file, push_locals, push_history, okPosts, errKeys,
                   prevAllOk, unit_vars>>

\* recvfrom returns a datagram and _parse_message handles it
Recv ==
    /\ pc = "receiving"
    /\ dgrams < MaxDgrams
    /\ dgrams' = dgrams + 1
    /\ \E data \in Datagrams :
        \E resp \in IF parse_message(data, NoResp, last_uploaded_qsos).result.posts > 0
                    THEN Responses ELSE {NoResp} :
          LET m == parse_message(data, resp, last_uploaded_qsos)
              qso_hash == IF m.adif_line = None THEN EmptyStr
                          ELSE calculate_hash(m.adif_line)
          IN  /\ ev' = Event("recv", data, m, resp)
              /\ IF m.called /\ qso_hash # EmptyStr
                 THEN /\ Answered(qso_hash, m.result)
                      /\ heard' = IF m.result.posts > 0
                                  THEN [heard EXCEPT ![qso_hash] =
                                           IF m.result.ok THEN "ok" ELSE "err"]
                                  ELSE heard
                 ELSE UNCHANGED <<okPosts, errKeys, heard>>
              /\ IF m.save # EmptyStr
                 THEN /\ cache_file' = save_uploaded_qso(cache_file, m.save)
                      /\ last_uploaded_qsos' = last_uploaded_qsos \cup {m.save}
                 ELSE UNCHANGED <<cache_file, last_uploaded_qsos>>
    /\ UNCHANGED <<log_file, pc, push_locals, push_history, socket, runs, prevAllOk,
                   unit_vars>>

\* KeyboardInterrupt in recvfrom: the handler, then finally; main drops the
\* listener
Interrupt ==
    /\ pc = "receiving"
    /\ socket' = "closed"
    /\ pc' = "menu"
    /\ ev' = [Quiet("interrupt") EXCEPT !.irq = "recvfrom"]
    /\ last_uploaded_qsos' = {}
    /\ dgrams' = 0
    /\ heard' = NothingHeard
    /\ UNCHANGED <<cache_file, log_file, push_locals, push_history, runs, okPosts,
                   errKeys, prevAllOk, unit_vars>>

\* recvfrom raises a socket error: finally closes the socket and the error
\* leaves start() and main
RecvError ==
    /\ pc = "receiving"
    /\ socket' = "closed"
    /\ pc' = "crashed"
    /\ ev' = Quiet("socket_error")
    /\ UNCHANGED <<cache_file, log_file, push_locals, push_history, last_uploaded_qsos,
                   dgrams, heard, runs, okPosts, errKeys, prevAllOk, unit_vars>>

\* recvfrom returns a datagram and the operator's interrupt comes while
\* _parse_message handles it: when it leaves _parse_message, start() takes it
\* as it takes one in recvfrom
RecvInterrupted ==
    /\ pc = "receiving"
    /\ dgrams < MaxDgrams
    /\ \E data \in Datagrams, point \in IrqPoints :
        \E resp \in IF parse_message(data, NoResp, last_uploaded_qsos).result.posts > 0
                       /\ point # "scan"
                    THEN Responses ELSE {NoResp} :
          \E i \in {parse_message_interrupted(data, resp, last_uploaded_qsos,
                                              cache_file, point)} :
          LET qso_hash == IF i.m.adif_line = None THEN EmptyStr
                          ELSE calculate_hash(i.m.adif_line)
          IN  /\ i.reached
              /\ ev' = [Event("recv", data, i.m, resp) EXCEPT !.irq = point]
              /\ cache_file' = i.file
              /\ IF i.m.called /\ qso_hash # EmptyStr
                 THEN Answered(qso_hash, i.m.result)
                 ELSE UNCHANGED <<okPosts, errKeys>>
              /\ IF i.raised
                 THEN /\ socket' = "closed"
                      /\ pc' = "menu"
                      /\ last_uploaded_qsos' = {}
                      /\ dgrams' = 0
                      /\ heard' = NothingHeard
                 ELSE /\ socket' = socket
                      /\ pc' = pc
                      /\ last_uploaded_qsos' = i.working
                      /\ dgrams' = dgrams + 1
                      /\ heard' = IF i.m.called /\ qso_hash # EmptyStr
                                  THEN [heard EXCEPT ![qso_hash] =
                                           IF i.m.result.ok THEN "ok" ELSE "err"]
                                  ELSE heard
    /\ UNCHANGED <<log_file, push_locals, push_history, runs, prevAllOk, unit_vars>>

-----------------------------------------------------------------------------
(* main: the other choices *)

\* choice 5
ClearCache ==
    /\ pc = "menu"
    /\ cache_file' = clear_cache(cache_file)
    /\ ev' = Quiet("clear")
    /\ okPosts' = [k \in Keys |-> 0]
    /\ errKeys' = {}
    /\ prevAllOk' = FALSE
    /\ UNCHANGED <<log_file, pc, push_locals, push_history, listener_state, runs,
                   unit_vars>>

\* choice q
Quit ==
    /\ pc = "menu"
    /\ pc' = "exited"
    /\ ev' = Quiet("quit")
    /\ UNCHANGED <<cache_file, log_file, push_locals, push_history, listener_state, runs,
                   okPosts, errKeys, prevAllOk, unit_vars>>

Next ==
    \/ PushFileStart
    \/ PushFileLine
    \/ PushFileReturn
    \/ ListenStart
    \/ ListenStartFails
    \/ Recv
    \/ Interrupt
    \/ RecvError
    \/ ClearCache
    \/ Quit

-----------------------------------------------------------------------------
(* calculate_hash on its own: two record texts written from their field values *)

Missing == <<"missing">>

\* The values of (QSO_DATE, TIME_ON, CALL, FREQ, MODE); FREQ and MODE may be missing
Tuples ==
    [qso_date : {<<"1">>, <<"2">>}, time_on : {<<"3">>}, call : {<<"A">>},
     freq : {Missing, <<"7">>}, mode : {Missing, <<"B">>}]

FieldOrders ==
    {<<"QSO_DATE", "TIME_ON", "CALL", "FREQ", "MODE">>,
     <<"MODE", "FREQ", "CALL", "TIME_ON", "QSO_DATE">>}

\* How a record is written: the order of its tags, whether the declared
\* lengths are the true ones, where extra whitespace goes ("lead": before the
\* first tag, "value": between each value and the next tag, "trail": after
\* <EOR>), and whether a TX_PWR field follows the others
Layouts ==
    [order : FieldOrders, true_len : BOOLEAN, ws : {"none", "lead", "value", "trail"},
     tx_pwr : BOOLEAN]

PlainLayout ==
    [order |-> <<"QSO_DATE", "TIME_ON", "CALL", "FREQ", "MODE">>, true_len |-> TRUE,
     ws |-> "none", tx_pwr |-> FALSE]

\* The text of the record with these values in this layout
Render(tuple, layout) ==
    LET value(n) == tuple[lower(n)]
        field(n) ==
            IF value(n) = Missing THEN << >>
            ELSE <<Tag(n, IF layout.true_len THEN Len(value(n)) ELSE 0),
                   Txt(value(n) \o (IF layout.ws = "value" THEN <<" ">> ELSE << >>))>>
        RECURSIVE fields(_)
        fields(i) == IF i > Len(layout.order) THEN << >>
                     ELSE field(layout.order[i]) \o fields(i + 1)
    IN  (IF layout.ws = "lead" THEN <<Txt(<<" ">>)>> ELSE << >>)
        \o fields(1)
        \o (IF layout.tx_pwr THEN <<Tag("TX_PWR", 2), Txt(<<"5", "W">>)>> ELSE << >>)
        \o <<Mark("EOR")>>
        \o (IF layout.ws = "trail" THEN <<Txt(<<" ">>)>> ELSE << >>)

InitHash ==
    /\ InitPipeline
    /\ \E ta \in Tuples, tb \in Tuples, layout \in Layouts :
          hash_in = [tuple_a |-> ta, tuple_b |-> tb, layout |-> layout,
                     text_a |-> Render(ta, PlainLayout), text_b |-> Render(tb, layout)]
    /\ hash_out = NoHash
    /\ race = NoRace

Hash ==
    /\ ~hash_out.done
    /\ hash_out' = [done |-> TRUE, a |-> calculate_hash(hash_in.text_a),
                    b |-> calculate_hash(hash_in.text_b)]
    /\ UNCHANGED <<cache_file, log_file, pc, push_locals, push_history, listener_state,
                   runs, ev, okPosts, errKeys, prevAllOk, hash_in, race>>

SpecHash == InitHash /\ [][Hash]_vars

-----------------------------------------------------------------------------
(* Config.save_uploaded_qso in two processes at once: a push_file run and a  *)
(* listener, each saving one key to the cache file they share                *)

\* The length of a key in the file: a SHA-256 digest in hexadecimal
digest_width == 64

\* the length of a line of the cache file, '' or a key
width(piece) == IF piece = EmptyStr THEN 0 ELSE digest_width

\* the length of the text of these lines, joined by "\n"
RECURSIVE size(_)
size(pieces) ==
    IF pieces = << >> THEN 0
    ELSE IF Len(pieces) = 1 THEN width(Head(pieces))
    ELSE width(Head(pieces)) + 1 + size(Tail(pieces))

\* write_text opens the file for writing: it is there and empty from then on
truncate(file) == FileOf(<<EmptyStr>>)

\* write_text writes its text, from the start of the file, when it closes the
\* file: what the file held beyond the end of this text, written by another
\* process since this one opened the file, stays.  When the cut falls inside
\* a line, what stays of that line follows the last line written, with no
\* "\n" between them.
write_at_start(file, pieces) ==
    LET old == file.text
        c == size(pieces)
        start(j) == IF j = 1 THEN 0 ELSE size(SubSeq(old, 1, j - 1)) + 1
        j == CHOOSE i \in 1..Len(old) : start(i) <= c /\ c <= start(i) + width(old[i])
        off == c - start(j)
        rest == SubSeq(old, j + 1, Len(old))
        kept == IF off = 0 THEN old[j] ELSE <<"tail of:">> \o old[j]
    IN  IF c >= size(old) THEN FileOf(pieces)
        ELSE IF off = width(old[j]) THEN FileOf(pieces \o rest)
        ELSE FileOf(SubSeq(pieces, 1, Len(pieces) - 1)
                      \o <<pieces[Len(pieces)] \o kept>> \o rest)

InitRace ==
    /\ InitPipeline
    /\ hash_in = << >>
    /\ hash_out = NoHash
    /\ \E before \in SUBSET Keys, k1 \in Keys, k2 \in Keys :
          race = [file |-> IF before = {} THEN NoFile ELSE FileOf(join(sorted(before))),
                  before |-> before, last |-> "",
                  proc |-> [p \in Procs |->
                              [pc |-> "idle",
                               key |-> IF p = "push_file" THEN k1 ELSE k2,
                               uploaded |-> {}]]]

pipeline_vars ==
    <<cache_file, log_file, pc, push_locals, push_history, listener_state, runs, ev,
      okPosts, errKeys, prevAllOk, hash_in, hash_out>>

\* uploaded = Config.load_uploaded_qsos(); uploaded.add(qso_hash)
SaveLoad(p) ==
    /\ race.proc[p].pc = "idle"
    /\ race' = [race EXCEPT
                   !.proc[p].pc = "loaded",
                   !.proc[p].uploaded = load_uploaded_qsos(race.file) \cup {race.proc[p].key}]
    /\ UNCHANGED pipeline_vars

\* Config.CACHE_FILE.write_text(...): the file is opened
SaveOpen(p) ==
    /\ race.proc[p].pc = "loaded"
    /\ race' = [race EXCEPT !.proc[p].pc = "open", !.file = truncate(race.file)]
    /\ UNCHANGED pipeline_vars

\* Config.CACHE_FILE.write_text(...): the text is written and the file closed
SaveWrite(p) ==
    /\ race.proc[p].pc = "open"
    /\ race' = [race EXCEPT
                   !.proc[p].pc = "done",
                   !.last = p,
                   !.file = write_at_start(race.file, join(sorted(race.proc[p].uploaded)))]
    /\ UNCHANGED pipeline_vars

\* write_text as one step
SaveOpenWrite(p) ==
    /\ race.proc[p].pc = "loaded"
    /\ race' = [race EXCEPT
                   !.proc[p].pc = "done",
                   !.last = p,
                   !.file = write_at_start(truncate(race.file),
                                           join(sorted(race.proc[p].uploaded)))]
    /\ UNCHANGED pipeline_vars

NextRace ==
    \E p \in Procs :
        \/ SaveLoad(p)
        \/ SaveOpen(p)
        \/ SaveWrite(p)

SpecRace == InitRace /\ [][NextRace]_vars

\* The two processes with each write_text done in one step
NextRaceWholeWrites ==
    \E p \in Procs :
        \/ SaveLoad(p)
        \/ SaveOpenWrite(p)

SpecRaceWholeWrites == InitRace /\ [][NextRaceWholeWrites]_vars

Spec == Init /\ [][Next]_vars

\* The program started with a cache that holds no key: the file is absent, or
\* it is there and empty
InitNoKeys ==
    /\ cache_file \in {NoFile, FileOf(<<EmptyStr>>)}
    /\ InitButCache
    /\ hash_in = << >>
    /\ hash_out = NoHash
    /\ race = NoRace

SpecNoKeys == InitNoKeys /\ [][Next]_vars

\* The listener runs of the program, with the operator's interrupt coming also
\* while a datagram is being handled
NextInterrupts ==
    \/ ListenStart
    \/ ListenStartFails
    \/ Recv
    \/ RecvInterrupted
    \/ Interrupt
    \/ RecvError
    \/ ClearCache
    \/ Quit

SpecInterrupts == Init /\ [][NextInterrupts]_vars

-----------------------------------------------------------------------------
(* What the claims speak of *)

\* the keys in the persisted cache
CacheKeys == load_uploaded_qsos(cache_file)

\* a line push_file handles: neither blank nor a comment
IsRecordLine(l) == strip(l) # << >> /\ ~startswith_hash(strip(l))

\* a handled line that parses as a valid record
IsValidRecordLine(l) == IsRecordLine(l) /\ parse_line(strip(l)) # None

KeyOfLine(l) == calculate_hash(strip(l))

NumRecordLines(f) == Cardinality({i \in 1..Len(f) : IsRecordLine(f[i])})
NumValidRecordLines(f) == Cardinality({i \in 1..Len(f) : IsValidRecordLine(f[i])})

\* the line the next turn of push_file's loop handles
NextLine == lines[idx + 1]
AtLine == pc = "push_file" /\ idx < Len(lines)

\* the last step handled a record and its POST was answered Err: an error
\* status or a transport failure
DeliveryError(e) == e.op \in {"push", "recv"} /\ e.posts > 0 /\ ~e.ok

\* a datagram with no QSO_DATE tag, or no CALL tag, or in which no text from a
\* QSO_DATE tag to an end-of-record mark is a valid record
NoRecordIn(data) ==
    LET text == decode(data)
        has(n) == \E i \in 1..Len(text) : text[i].t = "tag" /\ text[i].name = n
        records == {ij \in (1..Len(text)) \X (1..Len(text)) :
                       /\ ij[1] < ij[2]
                       /\ text[ij[1]].t = "tag" /\ text[ij[1]].name = "QSO_DATE"
                       /\ text[ij[2]] = Mark("EOR")
                       /\ parse_line(SubSeq(text, ij[1], ij[2])) # None}
    IN  ~has("QSO_DATE") \/ ~has("CALL") \/ records = {}

-----------------------------------------------------------------------------
(* Claims *)

\* C1: from an empty cache and with no cache clear in between, over push_file
\* runs and listener runs made one after the other, no Duplicate Key gets more
\* than one POST that is answered Ok.
C1_AtMostOneOkPost == \A k \in Keys : okPosts[k] <= 1

\* C2 as stated: handling a record whose POST is answered Err leaves the
\* persisted cache as it was, and a line of the file whose key has had such an
\* answer is POSTed again, not skipped, when push_file comes to it.
C2_ErrRecordPostedAgain ==
    [][/\ DeliveryError(ev') => cache_file' = cache_file
       /\ (AtLine /\ IsValidRecordLine(NextLine) /\ KeyOfLine(NextLine) \in errKeys)
             => (ev'.posts = 1 /\ skipped' = skipped)]_vars

\* C2 as amended: handling a record whose POST is answered Err leaves the
\* persisted cache as it was, and a line of the file whose key has had such an
\* answer and no Ok answer (since the cache was last empty) is POSTed again,
\* not skipped, when push_file comes to it.
C2_ErrLeavesCache ==
    [][/\ DeliveryError(ev') => cache_file' = cache_file
       /\ (/\ AtLine /\ IsValidRecordLine(NextLine)
           /\ KeyOfLine(NextLine) \in errKeys
           /\ okPosts[KeyOfLine(NextLine)] = 0)
             => (ev'.posts = 1 /\ skipped' = skipped)]_vars

\* a later push_file call POSTs, with success, a record whose key had an Err
\* answer and no Ok answer before
C2_Witness ==
    /\ ev.op = "push" /\ ev.ok /\ runs > 1 /\ idx = 1
    /\ KeyOfLine(ev.input) \in errKeys
    /\ okPosts[KeyOfLine(ev.input)] = 1

\* C3: when every upload of a push_file call has succeeded, the next call on
\* the unchanged file, with no cache clear in between, makes no POST, returns
\* success = 0 and returns skipped = the number of the file's valid records.
C3_SecondRunSkipsAll ==
    (ev.op = "return" /\ ev.call.rerun) =>
        /\ ev.call.nposts = 0
        /\ ev.ret.success = 0
        /\ ev.ret.skipped = NumValidRecordLines(log_file.lines)

C3_Witness == ev.op = "return" /\ ev.call.rerun /\ ev.ret.skipped = 2

\* C4: within one push_file call, a line whose key was uploaded successfully
\* earlier in the same call is counted as skipped and causes no POST.
C4_LaterDuplicateLineSkipped ==
    [][(AtLine /\ IsRecordLine(NextLine) /\ KeyOfLine(NextLine) \in okThisRun)
          => (ev'.posts = 0 /\ skipped' = skipped + 1)]_vars

C7_KeyIsOfTheFiveValues ==
    hash_out.done =>
        /\ hash_out.a # EmptyStr
        /\ hash_out.b # EmptyStr
        /\ (hash_in.tuple_a = hash_in.tuple_b) <=> (hash_out.a = hash_out.b)

\* C8: whatever the answers to the POSTs, every step of push_file's loop takes
\* the next line of the file, until after the last line push_file returns its
\* counts; the non-blank, non-comment lines taken so far are each counted in
\* exactly one of success, failed and skipped.
C8_AllLinesHandled ==
    /\ [](pc = "push_file" =>
            /\ idx <= Len(lines)
            /\ lines = log_file.lines
            /\ success + failed + skipped = NumRecordLines(SubSeq(lines, 1, idx)))
    /\ [](ev.op = "return" =>
            ev.ret.success + ev.ret.failed + ev.ret.skipped
                = NumRecordLines(log_file.lines))
    /\ [][pc = "push_file" =>
            \/ pc' = "push_file" /\ idx' = idx + 1 /\ lines' = lines
            \/ idx = Len(lines) /\ ev'.op = "return"
                  /\ ev'.ret = [success |-> success, failed |-> failed,
                                skipped |-> skipped]]_vars

\* a line is uploaded with success after an earlier line's POST was answered Err
C8_Witness ==
    /\ pc = "push_file" /\ idx = 2 /\ failed = 1 /\ errKeys # {}
    /\ ev.op = "push" /\ ev.ok

\* C9: push_record makes exactly one POST for a text that parses as a valid
\* record and none for one that does not, whose failure is "Invalid ADIF
\* format"; it returns Ok exactly when the answer is status 200 or 201.
C9_OnePostOkOn200Or201 ==
    ev.called =>
        IF parse_line(ev.adif_line) # None
        THEN /\ ev.posts = 1
             /\ ev.ok <=> (ev.resp.kind = "status" /\ ev.resp.code \in {200, 201})
        ELSE /\ ev.posts = 0
             /\ ~ev.ok
             /\ ev.err = "Invalid ADIF format"

C9_Witness == ev.called /\ ev.posts = 1 /\ ev.ok /\ ev.resp = Status(201)

\* C10: a datagram with no QSO_DATE tag or no CALL tag, or holding no valid
\* record, causes no POST, leaves the cache and the working set as they were
\* and leaves the listener receiving.
C10_DatagramWithoutRecordIgnored ==
    [][(pc = "receiving" /\ ev'.op = "recv" /\ NoRecordIn(ev'.input))
          => /\ ev'.posts = 0
             /\ cache_file' = cache_file
             /\ last_uploaded_qsos' = last_uploaded_qsos
             /\ pc' = "receiving"]_vars

\* such a datagram, holding both tags, has been handled after another datagram
C10_Witness ==
    /\ pc = "receiving" /\ ev.op = "recv" /\ dgrams = 2
    /\ NoRecordIn(ev.input)
    /\ contains_tag_open(decode(ev.input), "QSO_DATE")
    /\ contains_tag_open(decode(ev.input), "CALL")

\* the key the listener computes for a datagram ('' when it extracts no valid record)
KeyOfDatagram(data) ==
    LET adif_line == search_record(decode(data))
    IN  IF adif_line = None THEN EmptyStr ELSE calculate_hash(adif_line)

\* C11: in the listener, an upload answered Err was one POST and leaves the
\* cache and the working set as they were, and a datagram carrying a record
\* whose last answer in this run was Err is POSTed again; an upload answered Ok
\* puts the key in the cache and in the working set within the same step, and
\* a datagram carrying a record answered Ok in this run causes no POST.
C11_ListenerMarksOnOkOnly ==
    [][(pc = "receiving" /\ ev'.op = "recv") =>
          LET k == KeyOfDatagram(ev'.input)
          IN  /\ (ev'.called /\ ~ev'.ok) =>
                    /\ ev'.posts = 1
                    /\ cache_file' = cache_file
                    /\ last_uploaded_qsos' = last_uploaded_qsos
                    /\ k \notin last_uploaded_qsos'
              /\ ev'.ok =>
                    /\ ev'.posts = 1
                    /\ k \in load_uploaded_qsos(cache_file')
                    /\ k \in last_uploaded_qsos'
              /\ (k # EmptyStr /\ heard[k] = "err") => ev'.posts = 1
              /\ (k # EmptyStr /\ heard[k] = "ok") => ev'.posts = 0]_vars

\* a record answered Err has been POSTed again by the same listener run
C11_Witness ==
    /\ pc = "receiving" /\ ev.op = "recv" /\ dgrams = 2 /\ runs = 1
    /\ ev.posts = 1
    /\ KeyOfDatagram(ev.input) \in errKeys

\* a record answered Ok has come again in the same listener run
C11_WitnessOk ==
    /\ pc = "receiving" /\ ev.op = "recv" /\ dgrams = 2 /\ runs = 1
    /\ ev.posts = 0
    /\ KeyOfDatagram(ev.input) # EmptyStr
    /\ heard[KeyOfDatagram(ev.input)] = "ok"

\* C12: once the listener is receiving, the operator's interrupt, in recvfrom
\* or while a datagram is being handled, ends the loop in that step: the
\* socket is closed and control is back in the menu, with no exception out of
\* start(); and the loop goes back to the menu in no other way.
C12_InterruptStopsListener ==
    [][/\ (pc = "receiving" /\ ev'.irq # "") => (pc' = "menu" /\ socket' = "closed")
       /\ (pc = "receiving" /\ pc' = "menu") => (ev'.irq # "" /\ socket' = "closed")
       /\ (pc = "receiving" /\ pc' = "receiving") => socket' = "open"]_vars

\* C12 but for an interrupt inside load_uploaded_qsos
C12_InterruptOutsideLoadStopsListener ==
    [][/\ (pc = "receiving" /\ ev'.irq \notin {"", "load"})
             => (pc' = "menu" /\ socket' = "closed")
       /\ (pc = "receiving" /\ pc' = "menu") => (ev'.irq # "" /\ socket' = "closed")
       /\ (pc = "receiving" /\ pc' = "receiving") => socket' = "open"]_vars

\* the last step was a call of read_file
ReadDone == ev.op \in {"push_file", "cannot_read"}

Count(trace, what) == Cardinality({i \in 1..Len(trace) : trace[i] = what})

\* C13: read_file makes at least one and at most 5 open attempts; it sleeps
\* only right after a failed attempt and right before the next attempt, once
\* between two attempts; the first attempt that succeeds ends it with the
\* lines; after the 5th failed attempt it raises without sleeping again.
C13_BoundedRetry ==
    ReadDone =>
        LET r == ev.read
            t == r.trace
            opens == {i \in 1..Len(t) : t[i] \in {"open_fail", "open_ok"}}
        IN  /\ Cardinality(opens) = r.attempts
            /\ r.attempts >= 1 /\ r.attempts <= 5
            /\ Count(t, "sleep") = r.sleeps
            /\ r.sleeps = r.attempts - 1
            /\ \A i \in 1..Len(t) :
                  /\ t[i] = "sleep" =>
                        /\ i > 1 /\ t[i - 1] = "open_fail"
                        /\ i < Len(t) /\ t[i + 1] \in {"open_fail", "open_ok"}
                  /\ t[i] = "open_fail" => (i < Len(t) /\ t[i + 1] \in {"sleep", "raise"})
                  /\ t[i] \in {"open_ok", "raise"} => i = Len(t)
            /\ r.ok <=> t[Len(t)] = "open_ok"
            /\ ~r.ok =>
                  /\ r.attempts = 5
                  /\ Count(t, "open_fail") = 5
                  /\ SubSeq(t, Len(t) - 1, Len(t)) = <<"open_fail", "raise">>

\* the file was read at the third attempt
C13_Witness ==
    /\ ev.op = "push_file" /\ ev.read.ok /\ ev.read.attempts = 3
    /\ ev.read.trace = <<"open_fail", "sleep", "open_fail", "sleep", "open_ok">>

\* the fifth attempt failed too
C13_WitnessRaise == ev.op = "cannot_read" /\ ev.read.attempts = 5 /\ ev.read.sleeps = 4

\* what push_file returns after a run over a file with no records
EmptyRunReturn == [success |-> 0, failed |-> 0, skipped |-> 0]

\* C14: when read_file has raised, what push_file returns to its caller is
\* not what a successful run over a file with no records returns; no POST is
\* made, the cache is as it was and control is back in the menu.
C14_ReadFailureIsHardFailure ==
    [][ev'.op = "cannot_read" =>
          /\ ev'.ret # EmptyRunReturn
          /\ ev'.posts = 0
          /\ cache_file' = cache_file
          /\ pc' = "menu"]_vars

\* C14 but for the value returned
C14_ReadFailureHarmless ==
    [][ev'.op = "cannot_read" =>
          /\ ~ev'.read.ok
          /\ ev'.posts = 0
          /\ cache_file' = cache_file
          /\ pc' = "menu"
          /\ UNCHANGED <<log_file, push_locals, okPosts, errKeys, prevAllOk>>]_vars

\* a run over a file with no records has returned
C14_EmptyRunReturned ==
    ev.op = "return" /\ log_file.lines = << >> /\ ev.ret = EmptyRunReturn

\* the step told the operator of an error: push_file lists the reason of every
\* upload that failed, the listener prints it
Reported(e) == e.called /\ ~e.ok

\* a datagram from which the listener extracts a text that does not parse
ExtractsNoRecord(data) ==
    LET text == decode(data)
    IN  /\ contains_tag_open(text, "QSO_DATE") /\ contains_tag_open(text, "CALL")
        /\ search_record(text) # None
        /\ parse_line(search_record(text)) = None

\* C15: a non-blank, non-comment line of the file that does not parse as a
\* valid record causes no POST and no cache change, is not counted in failed
\* and is not reported; a datagram whose extracted text does not parse causes
\* no POST, no cache change and no report.
C15_FormatErrorDroppedSilently ==
    [][/\ (AtLine /\ IsRecordLine(NextLine) /\ ~IsValidRecordLine(NextLine)) =>
             /\ ev'.posts = 0
             /\ cache_file' = cache_file
             /\ failed' = failed
             /\ ~Reported(ev')
       /\ (pc = "receiving" /\ ev'.op = "recv" /\ ExtractsNoRecord(ev'.input)) =>
             /\ ev'.posts = 0
             /\ cache_file' = cache_file
             /\ ~Reported(ev')]_vars

\* C15 but for the count and the report of push_file
C15_FormatErrorNoPostNoSave ==
    [][/\ (AtLine /\ IsRecordLine(NextLine) /\ ~IsValidRecordLine(NextLine)) =>
             /\ ev'.posts = 0
             /\ cache_file' = cache_file
             /\ failed' = failed + 1
             /\ ev'.err = "Invalid ADIF format"
       /\ (pc = "receiving" /\ ev'.op = "recv" /\ ExtractsNoRecord(ev'.input)) =>
             /\ ev'.posts = 0
             /\ cache_file' = cache_file
             /\ last_uploaded_qsos' = last_uploaded_qsos
             /\ ~Reported(ev')]_vars

\* a datagram whose extracted text does not parse has been handled
C15_DatagramDropped == ev.op = "recv" /\ ExtractsNoRecord(ev.input)

\* the keys a later load of the shared cache file gives
RaceKeys == load_uploaded_qsos(race.file) \ {EmptyStr}

RaceAdded == {race.proc[p].key : p \in Procs}

RaceDone == \A p \in Procs : race.proc[p].pc = "done"

\* C16: whatever the interleaving of the two save_uploaded_qso calls, the
\* cache file holds no key but those it held before and those the two
\* processes add.  (That a key one process added can be lost to the last
\* writer is C16_LostUpdate, a state that is reached.)
C16_NoPhantomKey == RaceKeys \subseteq race.before \cup RaceAdded

\* C16 for the state the two calls leave behind: no other key, and the key of
\* the last writer is there
C16_LastWriterWins ==
    RaceDone =>
        /\ RaceKeys \subseteq race.before \cup RaceAdded
        /\ race.proc[race.last].key \in RaceKeys

\* both calls are over and the key one process added is not in the file, the
\* key of the last writer is
C16_LostUpdate ==
    /\ RaceDone
    /\ \E p \in Procs : race.proc[p].key \notin RaceKeys
    /\ race.proc[race.last].key \in RaceKeys

\* the datagram holds the record text of this line of the file, whole
Embeds(data, l) ==
    LET text == decode(data)
        record == strip(l)
    IN  \E i \in 1..Len(text) :
            /\ i + Len(record) - 1 <= Len(text)
            /\ SubSeq(text, i, i + Len(record) - 1) = record

\* C17: the key the listener computes for a datagram that holds the record
\* text of a valid line of the file is the key push_file computes for that
\* line; so a datagram holding a record whose key is in the working set, as
\* it is when push_file has uploaded the line before the listener started,
\* causes no POST.
C17_SameKeyOnBothPaths ==
    [][(pc = "receiving" /\ ev'.op = "recv") =>
          \A l \in FileLines :
              (IsValidRecordLine(l) /\ Embeds(ev'.input, l)) =>
                  /\ KeyOfDatagram(ev'.input) = KeyOfLine(l)
                  /\ KeyOfLine(l) \in last_uploaded_qsos => ev'.posts = 0]_vars

\* C17 for the records that begin with their QSO_DATE tag
C17_SameKeyWhenDateComesFirst ==
    [][(pc = "receiving" /\ ev'.op = "recv") =>
          \A l \in FileLines :
              (/\ IsValidRecordLine(l) /\ Embeds(ev'.input, l)
               /\ Head(strip(l)).t = "tag" /\ Head(strip(l)).name = "QSO_DATE") =>
                  /\ KeyOfDatagram(ev'.input) = KeyOfLine(l)
                  /\ KeyOfLine(l) \in last_uploaded_qsos => ev'.posts = 0]_vars

\* the listener has been given a record that push_file had uploaded, and has
\* not POSTed it
C17_SkippedAcrossPaths ==
    /\ ev.op = "recv" /\ ev.posts = 0 /\ dgrams = 1 /\ runs = 2
    /\ KeyOfDatagram(ev.input) \in last_uploaded_qsos
    /\ Embeds(ev.input, RecA)

\* C18 as stated, in steps of 0.5 s from the first open attempt: read_file
\* gives up after 5 backoffs (2.5 s); a file locked for 4 steps (2 s) is
\* read; a file locked for 6 steps (3 s) is not.
C18_WindowOfFiveBackoffs ==
    ReadDone =>
        /\ ~ev.read.ok => ev.read.sleeps = 5
        /\ ev.read.nlocked = 4 => ev.read.ok
        /\ ev.read.nlocked = 6 => ~ev.read.ok

\* C18 as amended: read_file gives up after 4 backoffs (2.0 s), at its 5th
\* open attempt; a file is read exactly when it is locked for at most 4 steps
\* (2 s), at the first attempt made once the lock is gone; so a file locked
\* for 4 steps is read, at the 5th attempt, and a file locked for 5 steps
\* (2.5 s) or 6 steps (3 s) is not.
C18_WindowOfFourBackoffs ==
    ReadDone =>
        /\ ~ev.read.ok => (ev.read.sleeps = 4 /\ ev.read.attempts = 5)
        /\ ev.read.ok <=> ev.read.nlocked <= 4
        /\ ev.read.ok => (ev.read.sleeps = ev.read.nlocked
                             /\ ev.read.attempts = ev.read.nlocked + 1)
        /\ ev.read.nlocked = 4 => ev.read.ok
        /\ ev.read.nlocked = 6 => ~ev.read.ok

\* a file locked for 2 s has been read, at the fifth attempt
C18_Witness ==
    /\ ev.op = "push_file" /\ ev.read.nlocked = 4 /\ ev.read.ok
    /\ ev.read.attempts = 5 /\ ev.read.sleeps = 4

\* a file locked for 3 s could not be read
C18_WitnessLocked == ev.op = "cannot_read" /\ ev.read.nlocked = 6 /\ ev.read.sleeps = 4

\* the keys of the records for which a POST has been answered Ok
Delivered == {k \in Keys : okPosts[k] >= 1}

\* the lines of the cache file (an empty file has none)
CacheLines ==
    IF cache_file.exists /\ cache_file.text # <<EmptyStr>>
    THEN {cache_file.text[i] : i \in 1..Len(cache_file.text)}
    ELSE {}

\* C19: started with a cache that holds no key, every line of the cache file
\* and every member of the listener's working set is the key of a record for
\* which a POST has been answered Ok; so none is the empty hash.
C19_OnlyDeliveredKeys ==
    /\ CacheLines \subseteq Delivered
    /\ last_uploaded_qsos \subseteq Delivered

\* the listener runs on a cache that push_file has filled with two keys
C19_TwoKeysLoaded ==
    /\ pc = "receiving" /\ Cardinality(last_uploaded_qsos) = 2
    /\ CacheLines = last_uploaded_qsos

\* start() has been called and has ended
StartEnded == socket # "none" /\ pc # "receiving"

\* C20: whenever start() has ended, by the operator's interrupt, by a socket
\* error in recvfrom or by a failure of bind or of the multicast join, the
\* socket it opened is closed; and after a failure of bind or join the
\* program is back in its menu.
C20_SocketClosedOnEveryExit ==
    /\ StartEnded => socket = "closed"
    /\ ev.op = "bind_failed" => pc = "menu"

\* C20 for the ends of the receive loop
C20_SocketClosedAfterLoop ==
    /\ (StartEnded /\ ev.op # "bind_failed") => socket = "closed"
    /\ ev.op \in {"interrupt", "socket_error"} => socket = "closed"
    /\ ev.op = "interrupt" => pc = "menu"

\* recvfrom has raised a socket error after a datagram was handled
C20_LoopEndedByError == ev.op = "socket_error" /\ dgrams = 1 /\ socket = "closed"

====
